---- MODULE Spec2Model ----
(***************************************************************************)
(* A model of stampt (src/stampt.py): the timestamp codec (_now_ts,        *)
(* _parse_ts), the note store (_free_filename, save_note, newest_note,     *)
(* search_notes, list_notes) and the interactive capture loop (tui_loop,   *)
(* prompt_blank_line_action).                                              *)
(*                                                                         *)
(* Text is a sequence of one-character strings, a file name is such a      *)
(* sequence, an instant is a number of seconds since the epoch, and        *)
(* Python's None is the empty tuple (Some(x) is <<x>>).                    *)
(***************************************************************************)
EXTENDS Integers, Sequences, FiniteSets, TLC

VARIABLES
    zone,      \* the local time zone of the process (environment of datetime.now())
    hasTermios,\* HAS_TERMIOS (src/stampt.py:19-24)
    now,       \* the wall clock, seconds since the epoch
    dir,       \* the notes directory: file name -> [content, readable]
    saves,     \* the successful save_note calls so far, in order
    calls,     \* how many times _free_filename has been called
    ret,       \* the last operation performed and what it returned
    pc,        \* tui_loop's position: "dashboard", "collecting", "awaiting", "done"
    lines,     \* tui_loop's `lines`
    hist,      \* the input events of the current capture session, in order
    proc,      \* two concurrent save_note calls: each one's position and locals
    codec      \* the codec's input and output (the round trip)

vars == <<zone, hasTermios, now, dir, saves, calls, ret, pc, lines, hist, proc, codec>>

\* ------------------------------------------------------------------ bounds

\* how many times the clock may advance
MaxTicks == 1
\* how many save_note calls a behaviour of the note store makes
MaxSaves == 2
\* how many input events one capture session takes after its first line
MaxEvents == 5
\* how many seconds after each anchor instant the codec is tried on
MaxOffset == 3

\* ------------------------------------------------------------------ text

None == <<>>
Some(x) == <<x>>

\* "first", "second", ... as character sequences
Str_first == <<"f", "i", "r", "s", "t">>
Str_second == <<"s", "e", "c", "o", "n", "d">>
Str_md == <<".", "m", "d">>

\* str.isspace for the characters of the model
IsSpace(c) == c \in {" ", "\n", "\t"}

RECURSIVE LStrip(_)
LStrip(s) == IF s # <<>> /\ IsSpace(Head(s)) THEN LStrip(Tail(s)) ELSE s

RECURSIVE RStrip(_)
RStrip(s) ==
    IF s # <<>> /\ IsSpace(s[Len(s)]) THEN RStrip(SubSeq(s, 1, Len(s) - 1)) ELSE s

\* str.strip()
Strip(s) == RStrip(LStrip(s))

UpperChars == <<"A", "B", "C", "E", "H", "I", "L", "O", "P", "Q", "S", "T", "U", "X", "Y">>
LowerChars == <<"a", "b", "c", "e", "h", "i", "l", "o", "p", "q", "s", "t", "u", "x", "y">>

LowerChar(c) ==
    IF \E i \in 1..Len(UpperChars) : UpperChars[i] = c
    THEN LowerChars[CHOOSE i \in 1..Len(UpperChars) : UpperChars[i] = c]
    ELSE c

\* str.lower()
Lower(s) == [i \in 1..Len(s) |-> LowerChar(s[i])]

\* str.startswith
StartsWith(s, p) == Len(s) >= Len(p) /\ SubSeq(s, 1, Len(p)) = p

\* s[n:]
Drop(s, n) == SubSeq(s, n + 1, Len(s))

\* `needle in hay`
Contains(hay, needle) ==
    \E i \in 0..(Len(hay) - Len(needle)) : SubSeq(hay, i + 1, i + Len(needle)) = needle

\* "\n".join(ls)
RECURSIVE Join(_)
Join(ls) ==
    IF ls = <<>> THEN <<>>
    ELSE IF Len(ls) = 1 THEN ls[1]
    ELSE ls[1] \o <<"\n">> \o Join(Tail(ls))

DigitChars == <<"0", "1", "2", "3", "4", "5", "6", "7", "8", "9">>
IsDigit(c) == \E i \in 1..10 : DigitChars[i] = c
DigitVal(c) == (CHOOSE i \in 1..10 : DigitChars[i] = c) - 1

\* "%0<w>d" % n
RECURSIVE Pad(_, _)
Pad(n, w) == IF w = 0 THEN <<>> ELSE Pad(n \div 10, w - 1) \o <<DigitChars[(n % 10) + 1]>>

\* str(n) for n >= 0, as the f-string of _free_filename writes it
RECURSIVE Decimal(_)
Decimal(n) == IF n < 10 THEN <<DigitChars[n + 1]>> ELSE Decimal(n \div 10) \o <<DigitChars[(n % 10) + 1]>>

\* int(s) for a string of digits
RECURSIVE ToInt(_)
ToInt(s) == IF s = <<>> THEN 0 ELSE 10 * ToInt(SubSeq(s, 1, Len(s) - 1)) + DigitVal(s[Len(s)])

\* ------------------------------------------------------------ the calendar

\* The zones the process may run in: UTC, and Europe/Berlin in 2024 (summer
\* time from 2024-03-31 01:00 UTC to 2024-10-27 01:00 UTC).
Zones ==
    { [name |-> "UTC", std |-> 0, dst |-> 0, dstStart |-> 0, dstEnd |-> 0],
      [name |-> "Europe/Berlin", std |-> 3600, dst |-> 7200,
       dstStart |-> 1711846800, dstEnd |-> 1729990800] }

UtcOffset(z, u) == IF z.dstStart <= u /\ u < z.dstEnd THEN z.dst ELSE z.std

\* time.localtime(u), as seconds of the local wall clock since 1970-01-01 00:00:00
Local(z, u) == u + UtcOffset(z, u)

IsLeap(y) == (y % 4 = 0 /\ y % 100 # 0) \/ y % 400 = 0

DaysInMonth(y, m) ==
    IF m = 2 THEN (IF IsLeap(y) THEN 29 ELSE 28)
    ELSE IF m \in {4, 6, 9, 11} THEN 30 ELSE 31

\* days since 1970-01-01 of the proleptic Gregorian date y-m-d
DaysFromCivil(y, m, d) ==
    LET yy == IF m <= 2 THEN y - 1 ELSE y
        era == yy \div 400
        yoe == yy - era * 400
        mp == IF m > 2 THEN m - 3 ELSE m + 9
        doy == (153 * mp + 2) \div 5 + d - 1
        doe == yoe * 365 + yoe \div 4 - yoe \div 100 + doy
    IN  era * 146097 + doe - 719468

\* the date of a day number
CivilFromDays(n) ==
    LET z == n + 719468
        era == z \div 146097
        doe == z - era * 146097
        yoe == (doe - doe \div 1460 + doe \div 36524 - doe \div 146096) \div 365
        doy == doe - (365 * yoe + yoe \div 4 - yoe \div 100)
        mp == (5 * doy + 2) \div 153
        d == doy - (153 * mp + 2) \div 5 + 1
        m == IF mp < 10 THEN mp + 3 ELSE mp - 9
        y == yoe + era * 400 + (IF m <= 2 THEN 1 ELSE 0)
    IN  [year |-> y, month |-> m, day |-> d]

\* the fields of a naive datetime whose wall clock reads w seconds since 1970
Fields(w) ==
    LET date == CivilFromDays(w \div 86400)
        sod == w % 86400
    IN  [year |-> date.year, month |-> date.month, day |-> date.day,
         hour |-> sod \div 3600, minute |-> (sod % 3600) \div 60, second |-> sod % 60]

\* datetime.now(): the local wall clock's fields at instant u
Now(z, u) == Fields(Local(z, u))

\* datetime.timestamp() of a naive datetime (fold = 0) whose wall clock reads
\* t: CPython's _mktime, which solves t = local(u) for u and, of two
\* solutions, takes the earlier one.
Mktime(z, t) ==
    LET a == Local(z, t) - t
        u1 == t - a
        t1 == Local(z, u1)
        bFound == Local(z, u1 - 86400) - (u1 - 86400)
        b == IF t1 = t THEN bFound ELSE t1 - u1
        u2 == t - b
        t2 == Local(z, u2)
    IN  IF t1 = t /\ a = bFound THEN u1
        ELSE IF t2 = t THEN u2
        ELSE IF t1 = t THEN u1
        ELSE IF u1 > u2 THEN u1 ELSE u2

\* ------------------------------------------------------- the timestamp codec

\* strftime with %I, the hour of the 12-hour clock, in place of %H
Strftime12Hour(f) ==
    Pad(f.year, 4) \o <<"-">> \o Pad(f.month, 2) \o <<"-">> \o Pad(f.day, 2) \o <<"_">>
        \o Pad(IF f.hour % 12 = 0 THEN 12 ELSE f.hour % 12, 2) \o <<"-">>
        \o Pad(f.minute, 2) \o <<"-">> \o Pad(f.second, 2)

\* strftime("%Y-%m-%d_%H-%M-%S") of a naive datetime
Strftime(f) ==
    Pad(f.year, 4) \o <<"-">> \o Pad(f.month, 2) \o <<"-">> \o Pad(f.day, 2) \o <<"_">>
        \o Pad(f.hour, 2) \o <<"-">> \o Pad(f.minute, 2) \o <<"-">> \o Pad(f.second, 2)

\* _now_ts() when the clock reads u in zone z
_now_ts(z, u) == Strftime(Now(z, u))

\* the length of a text the pattern _TS matches
TsLen == 19

\* _TS.match(name): the pattern \d{4}-\d{2}-\d{2}_\d{2}-\d{2}-\d{2}, anchored at
\* the start of the name; m.group(1) or None
TsMatch(name) ==
    IF /\ Len(name) >= TsLen
       /\ \A i \in 1..TsLen :
            IF i \in {5, 8, 14, 17} THEN name[i] = "-"
            ELSE IF i = 11 THEN name[i] = "_"
            ELSE IsDigit(name[i])
    THEN Some(SubSeq(name, 1, TsLen))
    ELSE None

\* datetime.strptime(g, "%Y-%m-%d_%H-%M-%S"): the fields, or None for ValueError
\* (a field out of the directive's range, or no such date)
Strptime(g) ==
    LET f == [year |-> ToInt(SubSeq(g, 1, 4)), month |-> ToInt(SubSeq(g, 6, 7)),
              day |-> ToInt(SubSeq(g, 9, 10)), hour |-> ToInt(SubSeq(g, 12, 13)),
              minute |-> ToInt(SubSeq(g, 15, 16)), second |-> ToInt(SubSeq(g, 18, 19))]
    IN  IF /\ f.year >= 1
           /\ f.month \in 1..12
           /\ f.day \in 1..DaysInMonth(f.year, f.month)
           /\ f.hour \in 0..23
           /\ f.minute \in 0..59
           /\ f.second \in 0..59
        THEN Some(f)
        ELSE None

\* the wall clock reading, in seconds since 1970, of a naive datetime
WallSeconds(f) ==
    DaysFromCivil(f.year, f.month, f.day) * 86400 + f.hour * 3600 + f.minute * 60 + f.second

\* _parse_ts(name) in zone z: Some(timestamp) or None
_parse_ts(z, name) ==
    LET m == TsMatch(name)
    IN  IF m = None THEN None
        ELSE LET f == Strptime(m[1])
             IN  IF f = None THEN None ELSE Some(Mktime(z, WallSeconds(f[1])))

\* ------------------------------------------------------------ the note store

\* Path.exists(), given the names the directory holds
Exists(names, p) == p \in names

\* a write that leaves an existing file as it is (open(..., "x"))
WriteTextKeepExisting(d, p, s) ==
    IF p \in DOMAIN d THEN d ELSE (p :> [content |-> s, readable |-> TRUE]) @@ d

\* Path.write_text(s): the file is created, or truncated and rewritten
WriteText(d, p, s) ==
    (p :> [content |-> s, readable |-> IF p \in DOMAIN d THEN d[p].readable ELSE TRUE]) @@ d

\* the end of range(1, 1000)
VersionRangeEnd == 1000

\* f"{base}.md" for i = 0 and f"{base}_v{i}.md" for i >= 1
Candidate(base, i) ==
    IF i = 0 THEN base \o Str_md ELSE base \o <<"_", "v">> \o Decimal(i) \o Str_md

\* the loop with range(1, 1001): one version more
ProbeVersionsInclusive(names, base) ==
    LET free == {i \in 1..VersionRangeEnd : ~Exists(names, Candidate(base, i))}
    IN  IF free = {} THEN [raised |-> TRUE, path |-> None]
        ELSE [raised |-> FALSE,
              path |-> Some(Candidate(base, CHOOSE i \in free : \A j \in free : i <= j))]

\* the loop of _free_filename: the first i of range(1, 1000) whose candidate
\* does not exist is returned; RuntimeError when the range holds none
ProbeVersions(names, base) ==
    LET free == {i \in 1..(VersionRangeEnd - 1) : ~Exists(names, Candidate(base, i))}
    IN  IF free = {} THEN [raised |-> TRUE, path |-> None]
        ELSE [raised |-> FALSE,
              path |-> Some(Candidate(base, CHOOSE i \in free : \A j \in free : i <= j))]

\* _free_filename without the existence checks: always f"{base}.md"
FreeFilenameNoProbe(d, base) == [raised |-> FALSE, path |-> Some(Candidate(base, 0))]

\* _free_filename(directory, base): the path, or RuntimeError raised
_free_filename(d, base) ==
    LET names == DOMAIN d
    IN  IF ~Exists(names, Candidate(base, 0))
        THEN [raised |-> FALSE, path |-> Some(Candidate(base, 0))]
        ELSE ProbeVersions(names, base)

\* the text written as it came, without strip()
NoteContentUnstripped(text) == text \o <<"\n">>

\* what save_note writes for text
NoteContent(text) == Strip(text) \o <<"\n">>

\* save_note(directory, text) at instant u in zone z: the directory it leaves,
\* the value it returns, and whether RuntimeError left it
save_note(d, z, u, text) ==
    IF text = <<>> \/ Strip(text) = <<>>
    THEN [dir |-> d, val |-> None, raised |-> FALSE, base |-> None]
    ELSE LET base == _now_ts(z, u)
             p == _free_filename(d, base)
         IN  IF p.raised THEN [dir |-> d, val |-> None, raised |-> TRUE, base |-> Some(base)]
             ELSE [dir |-> WriteText(d, p.path[1], NoteContent(text)), val |-> p.path,
                   raised |-> FALSE, base |-> Some(base)]

\* the names directory.glob("*.md") yields
Glob(d) == {n \in DOMAIN d : Len(n) >= 3 /\ SubSeq(n, Len(n) - 2, Len(n)) = Str_md}

\* the orders in which the operating system may enumerate a set of names
RECURSIVE Orders(_)
Orders(S) ==
    IF S = {} THEN {<<>>}
    ELSE UNION {{<<x>> \o o : o \in Orders(S \ {x})} : x \in S}

\* with_ts = [(f, _parse_ts(f.name)) for f in files]
WithTs(z, files) == [i \in 1..Len(files) |-> <<files[i], _parse_ts(z, files[i])>>]

\* valid = [(f, ts) for f, ts in with_ts if ts is not None]
Valid(with_ts) == SelectSeq(with_ts, LAMBDA x : x[2] # None)

\* [f for f, ts in pairs]
Firsts(pairs) == [i \in 1..Len(pairs) |-> pairs[i][1]]

\* min in place of max
RECURSIVE MinFirst(_, _)
MinFirst(best, rest) ==
    IF rest = <<>> THEN best
    ELSE MinFirst(IF Head(rest)[2][1] < best[2][1] THEN Head(rest) ELSE best, Tail(rest))

\* max(valid, key=lambda x: x[1]): the first element whose key no other exceeds
RECURSIVE MaxFirst(_, _)
MaxFirst(best, rest) ==
    IF rest = <<>> THEN best
    ELSE MaxFirst(IF Head(rest)[2][1] > best[2][1] THEN Head(rest) ELSE best, Tail(rest))

\* newest_note(directory) when the directory enumerates as `files`
newest_note(z, files) ==
    LET valid == Valid(WithTs(z, files))
    IN  IF valid # <<>> THEN Some(MaxFirst(Head(valid), Tail(valid))[1]) ELSE None

\* sorted(...) without reverse=True
RECURSIVE InsertAsc(_, _)
InsertAsc(sorted, x) ==
    IF sorted = <<>> THEN <<x>>
    ELSE IF Head(sorted)[2][1] <= x[2][1] THEN <<Head(sorted)>> \o InsertAsc(Tail(sorted), x)
    ELSE <<x>> \o sorted

\* the place of x in a list sorted by descending key: after every entry whose
\* key is at least its own (sorted(..., reverse=True) is stable)
RECURSIVE InsertDesc(_, _)
InsertDesc(sorted, x) ==
    IF sorted = <<>> THEN <<x>>
    ELSE IF Head(sorted)[2][1] >= x[2][1] THEN <<Head(sorted)>> \o InsertDesc(Tail(sorted), x)
    ELSE <<x>> \o sorted

\* sorted(valid, key=lambda x: x[1], reverse=True)
RECURSIVE SortedDesc(_)
SortedDesc(valid) ==
    IF valid = <<>> THEN <<>>
    ELSE InsertDesc(SortedDesc(SubSeq(valid, 1, Len(valid) - 1)), valid[Len(valid)])

\* search_notes(directory, query) when the directory enumerates as `files`:
\* the result, whether the directory was enumerated, and the files read
search_notes(d, z, query, files) ==
    IF Strip(query) = <<>> THEN [val |-> <<>>, listed |-> FALSE, read |-> {}]
    ELSE LET matching_files == SelectSeq(files,
                 LAMBDA f : d[f].readable /\ Contains(Lower(d[f].content), Lower(query)))
         IN  [val |-> Firsts(SortedDesc(Valid(WithTs(z, matching_files)))), listed |-> TRUE,
              read |-> {files[i] : i \in 1..Len(files)}]

\* limit: int = 20
DisplayLimit == 20

\* list_notes(directory): sorted_files, and the notes it shows
list_notes(z, files) ==
    LET sorted_files == Firsts(SortedDesc(Valid(WithTs(z, files))))
    IN  [val |-> sorted_files,
         shown |-> SubSeq(sorted_files, 1, IF Len(sorted_files) < DisplayLimit
                                              THEN Len(sorted_files) ELSE DisplayLimit)]

\* ------------------------------------------------- the note store as a machine

\* the texts handed to save_note
Texts == { <<>>, <<" ", "\n">>, <<"a">>, <<" ", "H", "i", "\n", "\n">> }

\* the queries handed to search_notes
Queries == { <<>>, <<" ", "\t">>, <<"h", "I">>, <<"a">> }

\* Files other programs left in the directory: an unparsable name, a month
\* 13, a version 1 of the first second of the clock (in UTC), a note no one
\* may read, and a file that is no note.
File_notes == <<"n", "o", "t", "e", "s">> \o Str_md
File_month13 ==
    <<"2", "0", "2", "4", "-", "1", "3", "-", "0", "1", "_", "0", "0", "-", "0", "0", "-", "0", "0">>
        \o Str_md
File_v1 ==
    <<"2", "0", "2", "4", "-", "1", "0", "-", "2", "7", "_", "0", "0", "-", "5", "9", "-", "5", "9",
      "_", "v", "1">> \o Str_md
File_unreadable ==
    <<"2", "0", "2", "4", "-", "1", "0", "-", "2", "6", "_", "1", "0", "-", "0", "0", "-", "0", "0">>
        \o Str_md
File_txt == <<"t", "o", "d", "o", ".", "t", "x", "t">>

Foreign ==
    [n \in {File_notes, File_month13, File_v1, File_unreadable, File_txt} |->
        [content |-> IF n = File_month13 THEN <<"a", "\n">> ELSE <<"H", "i", "\n">>,
         readable |-> n # File_unreadable]]

Restrict(f, S) == [n \in S |-> f[n]]

\* the directories a behaviour may start in
InitDirs ==
    { Restrict(Foreign, {}),
      Restrict(Foreign, {File_notes, File_unreadable, File_txt}),
      Restrict(Foreign, {File_v1}) }

\* 2024-10-27 00:59:59 UTC: the last second of summer time in Europe/Berlin
ClockStarts == {1729990799}

NoRet == [op |-> "none", arg |-> <<>>, val |-> None, raised |-> FALSE, listed |-> FALSE, read |-> {}]

Idle ==
    /\ pc = "idle"
    /\ lines = <<>>
    /\ hist = <<>>
    /\ proc = <<>>
    /\ codec = None

Init ==
    /\ zone \in Zones
    /\ hasTermios = TRUE
    /\ now \in ClockStarts
    /\ dir \in InitDirs
    /\ saves = <<>>
    /\ calls = 0
    /\ ret = NoRet
    /\ Idle

\* a second passes
Tick ==
    /\ \E s \in ClockStarts : now - s \in 0..(MaxTicks - 1)
    /\ now' = now + 1
    /\ UNCHANGED <<zone, hasTermios, dir, saves, calls, ret, pc, lines, hist, proc, codec>>

\* what a successful save_note adds to the record of saves
Saved(r, text, u) ==
    IF r.val # None
    THEN Append(saves, [path |-> r.val[1], text |-> text, base |-> r.base[1], at |-> u])
    ELSE saves

\* the effect of save_note(directory, text) on the store
DoSave(text) ==
    \E r \in {save_note(dir, zone, now, text)} :
        /\ dir' = r.dir
        /\ saves' = Saved(r, text, now)
        /\ calls' = IF r.base # None THEN calls + 1 ELSE calls
        /\ ret' = [op |-> "save", arg |-> text, val |-> r.val, raised |-> r.raised,
                   listed |-> FALSE, read |-> {}]

\* save_note(directory, text), as `stampt add` calls it
Save(text) ==
    /\ Len(saves) < MaxSaves
    /\ DoSave(text)
    /\ UNCHANGED <<zone, hasTermios, now, pc, lines, hist, proc, codec>>

\* The read-only operations change nothing but `ret`, which each of them
\* overwrites: one taken after another reaches only states that one taken
\* directly reaches too, so they are taken from states whose last result is
\* not already a read-only operation's.
Fresh == ret.op \notin {"newest", "search", "list"}

\* newest_note(directory)
Newest ==
    /\ Fresh
    /\ \E files \in Orders(Glob(dir)) :
         ret' = [op |-> "newest", arg |-> <<>>, val |-> newest_note(zone, files),
                 raised |-> FALSE, listed |-> TRUE, read |-> {}]
    /\ UNCHANGED <<zone, hasTermios, now, dir, saves, calls, pc, lines, hist, proc, codec>>

\* search_notes(directory, query)
Search(query) ==
    /\ Fresh
    /\ \E files \in Orders(Glob(dir)) :
         LET r == search_notes(dir, zone, query, files)
         IN  ret' = [op |-> "search", arg |-> query, val |-> r.val, raised |-> FALSE,
                     listed |-> r.listed, read |-> r.read]
    /\ UNCHANGED <<zone, hasTermios, now, dir, saves, calls, pc, lines, hist, proc, codec>>

\* list_notes(directory)
List ==
    /\ Fresh
    /\ \E files \in Orders(Glob(dir)) :
         ret' = [op |-> "list", arg |-> <<>>, val |-> list_notes(zone, files).val,
                 raised |-> FALSE, listed |-> TRUE, read |-> {}]
    /\ UNCHANGED <<zone, hasTermios, now, dir, saves, calls, pc, lines, hist, proc, codec>>

Next ==
    \/ Tick
    \/ \E text \in Texts : Save(text)
    \/ Newest
    \/ \E query \in Queries : Search(query)
    \/ List

Spec == Init /\ [][Next]_vars

\* ------------------------------------------------ claims on the note store

Range(q) == {q[i] : i \in 1..Len(q)}

SavedPaths == {saves[i].path : i \in 1..Len(saves)}

Parsable(f) == _parse_ts(zone, f) # None

\* C1: the successful saves made while the clock reads one second took
\* pairwise distinct names, in order, from base.md, base_v1.md, base_v2.md,
\* ...; every saved file still holds what its save wrote; and a listing made
\* afterwards holds every saved file.
C1_SameSecondSaves ==
    /\ \A i, j \in 1..Len(saves) :
         (i < j /\ saves[i].at = saves[j].at) =>
            /\ saves[i].path # saves[j].path
            /\ \E a, b \in 0..Cardinality(DOMAIN dir) :
                 /\ a < b
                 /\ saves[i].path = Candidate(saves[i].base, a)
                 /\ saves[j].path = Candidate(saves[i].base, b)
    /\ \A i \in 1..Len(saves) :
         /\ saves[i].path \in DOMAIN dir
         /\ dir[saves[i].path].content = Strip(saves[i].text) \o <<"\n">>
    /\ ret.op = "list" => SavedPaths \subseteq Range(ret.val)

\* C1's case: two saves within one second, then a listing
C1_Witness ==
    /\ Len(saves) >= 2
    /\ saves[1].at = saves[2].at
    /\ ret.op = "list"

\* the files search_notes must return for query q
Matches(q) ==
    {f \in Glob(dir) :
        /\ dir[f].readable
        /\ Parsable(f)
        /\ \E i \in 0..(Len(dir[f].content) - Len(q)) :
             \A k \in 1..Len(q) : LowerChar(dir[f].content[i + k]) = LowerChar(q[k])}

\* C4: search returns exactly the readable notes with a parsable name whose
\* content holds the query, case ignored, each once, newest first; a blank
\* query returns nothing and neither lists the directory nor reads a file.
C4_Search ==
    ret.op = "search" =>
        IF Strip(ret.arg) = <<>>
        THEN ret.val = <<>> /\ ~ret.listed /\ ret.read = {}
        ELSE /\ Range(ret.val) = Matches(ret.arg)
             /\ Cardinality(Range(ret.val)) = Len(ret.val)
             /\ \A i, j \in 1..Len(ret.val) :
                  i < j => _parse_ts(zone, ret.val[i])[1] >= _parse_ts(zone, ret.val[j])[1]

\* C4's case: a search in another case than the notes', two notes of
\* different seconds found, and a matching file with an unparsable name and a
\* matching unreadable note left out
C4_Witness ==
    /\ ret.op = "search"
    /\ ret.arg = <<"h", "I">>
    /\ Len(ret.val) = 2
    /\ _parse_ts(zone, ret.val[1]) # _parse_ts(zone, ret.val[2])
    /\ {File_notes, File_unreadable} \subseteq DOMAIN dir

\* C5: newest returns none exactly when no note has a parsable name, and
\* otherwise a note with a parsable name whose timestamp no other exceeds.
C5_Newest ==
    ret.op = "newest" =>
        /\ ret.val = None <=> ~\E f \in Glob(dir) : Parsable(f)
        /\ ret.val # None =>
             /\ ret.val[1] \in Glob(dir)
             /\ Parsable(ret.val[1])
             /\ \A g \in Glob(dir) :
                  Parsable(g) => _parse_ts(zone, g)[1] <= _parse_ts(zone, ret.val[1])[1]

\* C5's case: newest over a directory with an unparsable name and notes of
\* different seconds
C5_Witness ==
    /\ ret.op = "newest"
    /\ ret.val # None
    /\ File_notes \in DOMAIN dir
    /\ \E f, g \in Glob(dir) :
         Parsable(f) /\ Parsable(g) /\ _parse_ts(zone, f) # _parse_ts(zone, g)

\* C10: in a directory holding only the notes this process saved, newest
\* returns the path the most recent save returned.
C10_NewestIsLastSave ==
    (ret.op = "newest" /\ saves # <<>> /\ DOMAIN dir = SavedPaths) =>
        ret.val = Some(saves[Len(saves)].path)

\* ------------------------------------------- many saves within one second

\* the texts saved while the clock stands still
SameSecondTexts == { <<>>, <<" ", "\n">>, <<" ", "H", "i", "\n", "\n">> }

\* how many saves of the current second the directory holds at the start:
\* none, or all but the last few names
SavedBefore == {0, VersionRangeEnd - 3}

\* the directory and the record of saves after k saves of text within second u
AfterSaves(z, u, text, k) ==
    [dir |-> [n \in {Candidate(_now_ts(z, u), i) : i \in 0..(k - 1)} |->
                [content |-> NoteContent(text), readable |-> TRUE]],
     saves |-> [i \in 1..k |-> [path |-> Candidate(_now_ts(z, u), i - 1), text |-> text,
                                base |-> _now_ts(z, u), at |-> u]]]

\* The zone decides only which base name the second has, so one zone is taken.
InitSameSecond ==
    /\ zone \in {z \in Zones : z.name = "UTC"}
    /\ hasTermios = TRUE
    /\ now \in ClockStarts
    /\ \E k \in SavedBefore, text \in {t \in SameSecondTexts : Strip(t) # <<>>} :
         /\ dir = AfterSaves(zone, now, text, k).dir
         /\ saves = AfterSaves(zone, now, text, k).saves
         /\ calls = k
    /\ ret = NoRet
    /\ Idle

\* save_note(directory, text) once more within the same second, until one
\* call has found every name taken
SaveAgain(text) ==
    /\ calls <= VersionRangeEnd
    /\ DoSave(text)
    /\ UNCHANGED <<zone, hasTermios, now, pc, lines, hist, proc, codec>>

NextSameSecond == \E text \in SameSecondTexts : SaveAgain(text)

SpecSameSecond == InitSameSecond /\ [][NextSameSecond]_vars

\* ------------------------------------------- claims on saves of one second

\* the base name of the frozen clock
BaseNow == _now_ts(zone, now)

\* C2 as stated: the 1000th call of allocate_filename for one base name, each
\* path returned before having been created, signals the error.
C2_ThousandthCallRaises ==
    (ret.op = "save" /\ calls = VersionRangeEnd /\ Strip(ret.arg) # <<>>) => ret.raised

\* C2 as amended: calls 1 to 1000 return base.md, base_v1.md, ...,
\* base_v999.md, and the 1001st call is the first to signal the error.
C2_ThousandFirstCallRaises ==
    (ret.op = "save" /\ Strip(ret.arg) # <<>>) =>
        /\ ret.raised <=> calls > VersionRangeEnd
        /\ ~ret.raised => ret.val = Some(Candidate(BaseNow, calls - 1))

\* C2's case: the call that finds every name taken
C2_Witness ==
    /\ ret.op = "save"
    /\ ret.raised
    /\ calls = VersionRangeEnd + 1
    /\ Cardinality(DOMAIN dir) = VersionRangeEnd

\* a step that is a call of save_note
SaveStep == ret'.op = "save" /\ <<ret, dir, calls>>' # <<ret, dir, calls>>

\* save created exactly one file, named by its result, holding the text
\* stripped and a newline, and left every other file alone
CreatedOne ==
    /\ ret'.val # None
    /\ ret'.val[1] \notin DOMAIN dir
    /\ DOMAIN dir' = DOMAIN dir \cup {ret'.val[1]}
    /\ Restrict(dir', DOMAIN dir) = dir
    /\ dir'[ret'.val[1]].content = Strip(ret'.arg) \o <<"\n">>

\* C3 as stated: a blank text changes nothing and returns nothing; any other
\* text creates exactly one new file, which holds the text stripped and one
\* newline, and returns its path.
C3_SaveAlwaysCreates ==
    [][SaveStep =>
        IF Strip(ret'.arg) = <<>> THEN dir' = dir /\ ret'.val = None /\ ~ret'.raised
        ELSE CreatedOne]_vars

\* C3 as amended: as stated, unless base.md and base_v1.md to base_v999.md
\* all exist for the current second: then nothing is created or modified and
\* the "too many versions" error is raised.
C3_SaveContract ==
    [][SaveStep =>
        IF Strip(ret'.arg) = <<>> THEN dir' = dir /\ ret'.val = None /\ ~ret'.raised
        ELSE IF ret'.val # None THEN CreatedOne /\ ~ret'.raised
        ELSE /\ ret'.raised
             /\ dir' = dir
             /\ \A i \in 0..(VersionRangeEnd - 1) : Candidate(BaseNow, i) \in DOMAIN dir]_vars

\* C3's case: a text with blanks around it was saved, after a blank one was
\* refused
C3_Witness ==
    /\ ret.op = "save"
    /\ ret.arg = <<" ", "H", "i", "\n", "\n">>
    /\ ret.val # None
    /\ dir[ret.val[1]].content = <<"H", "i", "\n">>
    /\ Len(saves) >= 2

\* ------------------------------------------------- the codec's round trip

\* Instants two seconds before: the end of 2024-02-29 (UTC), the start of
\* summer time in Europe/Berlin, the first and the second 02:00:00 of
\* 2024-10-27 in Europe/Berlin, and the end of 2024 (Europe/Berlin, UTC).
Anchors == {1709251198, 1711846798, 1729987198, 1729990798, 1735685998, 1735689598}

\* what _free_filename appends to a timestamp
Suffixes == { <<>>, Str_md, <<"_", "v", "1">> \o Str_md, <<"_", "v", "1", "2">> \o Str_md }

InitCodec ==
    /\ zone \in Zones
    /\ hasTermios = TRUE
    /\ now = 0
    /\ dir = Restrict(Foreign, {})
    /\ saves = <<>>
    /\ calls = 0
    /\ ret = NoRet
    /\ pc = "idle"
    /\ lines = <<>>
    /\ hist = <<>>
    /\ proc = <<>>
    /\ codec \in {[stage |-> "instant", t |-> a + k, suffix |-> sfx, name |-> <<>>, parsed |-> None] :
                    a \in Anchors, k \in 0..MaxOffset, sfx \in Suffixes}

\* _now_ts() at instant t, and the suffix appended
FormatTs ==
    /\ codec.stage = "instant"
    /\ codec' = [codec EXCEPT !.stage = "formatted",
                              !.name = _now_ts(zone, codec.t) \o codec.suffix]
    /\ UNCHANGED <<zone, hasTermios, now, dir, saves, calls, ret, pc, lines, hist, proc>>

\* _parse_ts(name)
ParseTs ==
    /\ codec.stage = "formatted"
    /\ codec' = [codec EXCEPT !.stage = "parsed", !.parsed = _parse_ts(zone, codec.name)]
    /\ UNCHANGED <<zone, hasTermios, now, dir, saves, calls, ret, pc, lines, hist, proc>>

NextCodec == FormatTs \/ ParseTs

SpecCodec == InitCodec /\ [][NextCodec]_vars

\* an earlier instant showed the local wall clock reading that t shows: t lies
\* in the hour repeated when the zone's clocks go back
Repeated(z, t) == z.dst # z.std /\ Local(z, t - (z.dst - z.std)) = Local(z, t)

\* C8 as stated: parse(format(t)) = t for every instant t, also with _vN and
\* .md appended.
C8_RoundTrip == codec.stage = "parsed" => codec.parsed = Some(codec.t)

\* C8 as amended: parse(format(t)) = t, also with _vN and .md appended, for
\* every instant t whose local wall clock reading no earlier instant showed.
C8_RoundTripUnrepeated ==
    (codec.stage = "parsed" /\ ~Repeated(zone, codec.t)) => codec.parsed = Some(codec.t)

\* C8's case: a name with _v12.md appended parsed back to its instant, in a
\* zone with summer time
C8_Witness ==
    /\ codec.stage = "parsed"
    /\ zone.dst # zone.std
    /\ codec.suffix = <<"_", "v", "1", "2">> \o Str_md
    /\ codec.parsed = Some(codec.t)

\* ------------------------------------------------------- the capture loop

\* What one read of the terminal delivers: a line (input()), a single
\* character (sys.stdin.read(1) in raw mode), the end of input, or an
\* interrupt (KeyboardInterrupt).
Line(text) == [kind |-> "line", text |-> text]
Char(c) == [kind |-> "char", text |-> <<c>>]
EndOfInput == [kind |-> "eof", text |-> <<>>]
Interrupt == [kind |-> "int", text |-> <<>>]

\* "\x18", which Ctrl+X sends
CtrlX == "^X"

Str_exit == <<"e", "x", "i", "t">>
Str_quit == <<"q", "u", "i", "t">>
Str_colon_q == <<":", "q">>
Str_copy == <<"c", "o", "p", "y">>
Str_list == <<"l", "i", "s", "t">>
Str_search == <<"s", "e", "a", "r", "c", "h", " ">>

\* what is typed at the "> " prompt
CmdEvents ==
    { Line(<<>>), Line(Str_first), Line(<<" ", "a", " ">>), Line(Str_exit), Line(Str_list),
      Line(Str_copy), Line(<<"/", "a">>), Line(<<"/">>), Line(Str_search \o <<"a">>), EndOfInput, Interrupt }

\* what is typed while a note is collected
NoteEvents == { Line(<<>>), Line(<<" ">>), Line(Str_second), Line(<<" ", "b">>), EndOfInput, Interrupt }

\* what arrives at the blank-line prompt: keys in raw mode, lines without it
PromptEvents(termios) ==
    IF termios THEN { Char(CtrlX), Char("\r"), EndOfInput, Interrupt }
    ELSE { Line(<<"X", " ">>), Line(<<>>), EndOfInput, Interrupt }

\* prompt_blank_line_action(): "ctrlx", "enter", or KeyboardInterrupt leaving it
prompt_blank_line_action(termios, e) ==
    IF ~termios
    THEN IF e.kind = "line"
         THEN (IF Lower(Strip(e.text)) = <<"x">> THEN "ctrlx" ELSE "enter")
         ELSE "enter"
    ELSE IF e.kind = "char" THEN (IF e.text = <<CtrlX>> THEN "ctrlx" ELSE "enter")
    ELSE IF e.kind = "eof" THEN "enter"
    ELSE "KeyboardInterrupt"

\* the blank line is kept as well when it is confirmed
AfterBlankKeepAlways(ls, action) == Append(ls, <<>>)

\* `lines` after the blank-line prompt answered `action`
AfterBlank(ls, action) == IF action = "ctrlx" THEN Append(ls, <<>>) ELSE ls

\* the draft is dropped
DraftDropped(ls) == FALSE

\* `if lines:` of the handler of EOFError and KeyboardInterrupt
DraftToSave(ls) == ls # <<>>

\* the query of a search command: cmd[7:] if cmd.startswith("search ") else cmd[1:]
QueryOf(cmd) == IF StartsWith(cmd, Str_search) THEN Drop(cmd, 7) ELSE Drop(cmd, 1)

InitCapture ==
    /\ zone \in Zones
    /\ hasTermios \in BOOLEAN
    /\ now \in ClockStarts
    /\ dir = Restrict(Foreign, {})
    /\ saves = <<>>
    /\ calls = 0
    /\ ret = NoRet
    /\ pc = "dashboard"
    /\ lines = <<>>
    /\ hist = <<>>
    /\ proc = <<>>
    /\ codec = None

Event(at, e) == [at |-> at, kind |-> e.kind, text |-> e.text]

\* save_note as tui_loop calls it: a RuntimeError leaves the loop through
\* `except Exception`
SaveFromLoop(text, after) ==
    /\ DoSave(text)
    /\ pc' = IF ret'.raised THEN "done" ELSE after

\* input("> ") and the dispatch of the command
ReadCmd(e) ==
    /\ pc = "dashboard"
    /\ LET cmd == Strip(e.text)
           low == Lower(cmd)
       IN  IF e.kind # "line" \/ low \in {Str_exit, Str_quit, Str_colon_q}
           THEN pc' = "done" /\ UNCHANGED <<lines, hist, ret>>
           ELSE IF low = Str_copy
           THEN pc' = "dashboard" /\ UNCHANGED <<lines, hist, ret>>
           ELSE IF low = Str_list
           THEN pc' = "paused" /\ UNCHANGED <<lines, hist, ret>>
           ELSE IF StartsWith(low, Str_search) \/ StartsWith(low, <<"/">>)
           THEN /\ pc' = IF Strip(QueryOf(cmd)) # <<>> THEN "paused" ELSE "dashboard"
                /\ UNCHANGED <<lines, hist, ret>>
           ELSE /\ saves = <<>>
                /\ pc' = "collecting"
                /\ lines' = IF cmd # <<>> THEN <<cmd>> ELSE <<>>
                /\ hist' = <<Event("dashboard", e)>>
                /\ ret' = NoRet
    /\ UNCHANGED <<zone, hasTermios, now, dir, saves, calls, proc, codec>>

\* input("\nPress Enter to continue...")
Pause(e) ==
    /\ pc = "paused"
    /\ pc' = IF e.kind = "line" THEN "dashboard" ELSE "done"
    /\ UNCHANGED <<zone, hasTermios, now, dir, saves, calls, ret, lines, hist, proc, codec>>

\* the handler of EOFError and KeyboardInterrupt
SaveDraft ==
    IF DraftToSave(lines) THEN SaveFromLoop(Join(lines), "done")
    ELSE pc' = "done" /\ UNCHANGED <<dir, saves, calls, ret>>

\* `if lines:` after the loop
SaveNote(ls) ==
    IF ls # <<>> THEN SaveFromLoop(Join(ls), "dashboard")
    ELSE pc' = "dashboard" /\ UNCHANGED <<dir, saves, calls, ret>>

\* line = input() in the note
ReadLine(e) ==
    /\ pc = "collecting"
    /\ Len(hist) <= MaxEvents
    /\ hist' = Append(hist, Event("note", e))
    /\ IF e.kind # "line" THEN SaveDraft /\ UNCHANGED lines
       ELSE IF Strip(e.text) = <<>>
       THEN pc' = "awaiting" /\ UNCHANGED <<lines, dir, saves, calls, ret>>
       ELSE pc' = "collecting" /\ lines' = Append(lines, e.text)
            /\ UNCHANGED <<dir, saves, calls, ret>>
    /\ UNCHANGED <<zone, hasTermios, now, proc, codec>>

\* action = prompt_blank_line_action() and what follows it
BlankDecision(e) ==
    /\ pc = "awaiting"
    /\ Len(hist) <= MaxEvents
    /\ hist' = Append(hist, Event("prompt", e))
    /\ LET action == prompt_blank_line_action(hasTermios, e)
       IN  IF action = "KeyboardInterrupt" THEN SaveDraft /\ UNCHANGED lines
           ELSE IF action = "ctrlx"
           THEN /\ pc' = "collecting"
                /\ lines' = AfterBlank(lines, action)
                /\ UNCHANGED <<dir, saves, calls, ret>>
           ELSE /\ lines' = AfterBlank(lines, action)
                /\ SaveNote(lines')
    /\ UNCHANGED <<zone, hasTermios, now, proc, codec>>

NextCapture ==
    \/ \E e \in CmdEvents : ReadCmd(e)
    \/ \E e \in {Line(<<>>), EndOfInput, Interrupt} : Pause(e)
    \/ \E e \in NoteEvents : ReadLine(e)
    \/ \E e \in PromptEvents(hasTermios) : BlankDecision(e)

SpecCapture == InitCapture /\ [][NextCapture]_vars

\* ------------------------------------------------ claims on the capture loop

\* the cancel-continuation signal: Ctrl+X in raw mode, a line reading x without it
IsCancel(e) ==
    /\ e.at = "prompt"
    /\ \/ hasTermios /\ e.kind = "char" /\ e.text = <<CtrlX>>
       \/ ~hasTermios /\ e.kind = "line" /\ Lower(Strip(e.text)) = <<"x">>

\* the confirmation: any other key, or any other line
IsConfirm(e) == e.at = "prompt" /\ e.kind \in {"char", "line"} /\ ~IsCancel(e)

\* the lines event e stands for in the note: the first line (trimmed, when not
\* empty), a non-blank line as typed, an empty line for a cancelled blank line
LinesOf(e) ==
    IF e.at = "dashboard" THEN (IF Strip(e.text) # <<>> THEN <<Strip(e.text)>> ELSE <<>>)
    ELSE IF e.at = "note" /\ e.kind = "line" /\ Strip(e.text) # <<>> THEN <<e.text>>
    ELSE IF IsCancel(e) THEN << <<>> >>
    ELSE <<>>

RECURSIVE ExpectedFrom(_, _)
ExpectedFrom(h, i) == IF i > Len(h) THEN <<>> ELSE LinesOf(h[i]) \o ExpectedFrom(h, i + 1)

ExpectedLines(h) == ExpectedFrom(h, 1)

\* C6: when a session ends with a blank line and the confirmation, the text
\* handed to save is the newline-join of the first line (as the loop took it,
\* trimmed), every non-blank line as typed and one empty line for each blank
\* line answered with cancel-continuation, the confirmed blank line left out;
\* nothing is handed to save when there are no such lines; and a file written
\* holds that text stripped and one newline ("first", "", confirm: "first\n").
C6_TextHandedToSave ==
    (pc = "dashboard" /\ hist # <<>> /\ IsConfirm(hist[Len(hist)])) =>
        LET exp == ExpectedLines(hist)
        IN  IF exp = <<>> THEN ret.op = "none" /\ saves = <<>>
            ELSE /\ ret.op = "save"
                 /\ ret.arg = Join(exp)
                 /\ ret.val # None => dir[ret.val[1]].content = Strip(Join(exp)) \o <<"\n">>
                 /\ hist = <<Event("dashboard", Line(Str_first)), Event("note", Line(<<>>)),
                             hist[Len(hist)]>>
                        => ret.val # None /\ dir[ret.val[1]].content = Str_first \o <<"\n">>

\* C6's case: "first", "", cancel-continuation, "second", "", confirm hands
\* "first\n\nsecond" to save
C6_Witness ==
    /\ pc = "dashboard"
    /\ hist = <<Event("dashboard", Line(Str_first)), Event("note", Line(<<>>)),
                Event("prompt", Char(CtrlX)), Event("note", Line(Str_second)),
                Event("note", Line(<<>>)), Event("prompt", Char("\r"))>>
    /\ ret.op = "save"
    /\ ret.arg = Str_first \o <<"\n", "\n">> \o Str_second
    /\ ret.val # None
    /\ dir[ret.val[1]].content = Str_first \o <<"\n", "\n">> \o Str_second \o <<"\n">>

\* a step in which the end of input or an interrupt arrives in a capture session
InterruptStep ==
    /\ pc \in {"collecting", "awaiting"}
    /\ Len(hist') = Len(hist) + 1
    /\ hist'[Len(hist')].kind \in {"eof", "int"}

\* the step wrote `lines` as one new note and changed no other file
WroteDraft ==
    \E p \in DOMAIN dir' \ DOMAIN dir :
        /\ DOMAIN dir' = DOMAIN dir \cup {p}
        /\ dir'[p].content = Strip(Join(lines)) \o <<"\n">>
        /\ \A n \in DOMAIN dir : dir'[n] = dir[n]

\* C7 as stated: when the end of input or an interrupt arrives during a
\* capture session, the loop terminates, having written the accumulated lines
\* as a note if there are any and no file otherwise.
C7_InterruptSavesAndExits ==
    [][InterruptStep =>
        /\ pc' = "done"
        /\ IF lines # <<>> THEN WroteDraft ELSE dir' = dir]_vars

\* C7 as amended: while a note line is read (and for an interrupt signal at
\* the raw-mode prompt), the accumulated lines, if any, are handed to save,
\* which writes them as a note unless their text is blank or every name of
\* the second is taken, and the loop terminates; with no lines no file is
\* written and the loop terminates. At the blank-line prompt the end of input
\* (and, without raw mode, an interrupt) is a confirmation: the lines are
\* handed to save in the same way and the loop returns to the dashboard.
C7_InterruptHandsDraftToSave ==
    [][InterruptStep =>
        /\ pc' = IF \/ pc = "collecting"
                    \/ hasTermios /\ hist'[Len(hist')].kind = "int"
                    \/ ret'.raised
                 THEN "done" ELSE "dashboard"
        /\ IF lines # <<>>
           THEN /\ ret'.op = "save"
                /\ ret'.arg = Join(lines)
                /\ IF Strip(Join(lines)) # <<>> /\ ~ret'.raised THEN WroteDraft ELSE dir' = dir
           ELSE dir' = dir /\ ret' = ret]_vars

\* C7's case: the end of input or an interrupt while a line of a note of two
\* lines or more was read, and the draft written
C7_Witness ==
    /\ pc = "done"
    /\ hist # <<>>
    /\ hist[Len(hist)].at = "note"
    /\ hist[Len(hist)].kind \in {"eof", "int"}
    /\ Len(lines) >= 2
    /\ ret.op = "save"
    /\ ret.val # None
    /\ dir[ret.val[1]].content = Strip(Join(lines)) \o <<"\n">>

\* ------------------------------------------------ two processes saving at once

Procs == {1, 2}

\* the texts the two processes save
ProcTexts == { <<"a">>, <<" ", "H", "i", "\n", "\n">> }

NotStarted == [pc |-> "start", text |-> <<>>, base |-> <<>>, i |-> 0, path |-> None]

InitConcurrent ==
    /\ zone \in Zones
    /\ hasTermios = TRUE
    /\ now \in ClockStarts
    /\ dir = Restrict(Foreign, {})
    /\ saves = <<>>
    /\ calls = 0
    /\ ret = NoRet
    /\ pc = "idle"
    /\ lines = <<>>
    /\ hist = <<>>
    /\ proc = [p \in Procs |-> NotStarted]
    /\ codec = None

\* save_note up to the call of _free_filename: the text is not blank, and
\* _now_ts() names the second
Begin(p, text) ==
    /\ proc[p].pc = "start"
    /\ Strip(text) # <<>>
    /\ proc' = [proc EXCEPT ![p] = [pc |-> "probe", text |-> text,
                                    base |-> _now_ts(zone, now), i |-> 0, path |-> None]]
    /\ calls' = calls + 1
    /\ UNCHANGED <<zone, hasTermios, now, dir, saves, ret, pc, lines, hist, codec>>

\* one exists() of _free_filename
Probe(p) ==
    /\ proc[p].pc = "probe"
    /\ LET cand == Candidate(proc[p].base, proc[p].i)
       IN  proc' = [proc EXCEPT ![p] =
                IF ~Exists(DOMAIN dir, cand) THEN [@ EXCEPT !.pc = "write", !.path = Some(cand)]
                ELSE IF proc[p].i + 1 >= VersionRangeEnd THEN [@ EXCEPT !.pc = "raised"]
                ELSE [@ EXCEPT !.i = @ + 1]]
    /\ UNCHANGED <<zone, hasTermios, now, dir, saves, calls, ret, pc, lines, hist, codec>>

\* p.write_text(text.strip() + "\n")
Write(p) ==
    /\ proc[p].pc = "write"
    /\ dir' = WriteText(dir, proc[p].path[1], NoteContent(proc[p].text))
    /\ saves' = Append(saves, [path |-> proc[p].path[1], text |-> proc[p].text,
                               base |-> proc[p].base, at |-> now])
    /\ proc' = [proc EXCEPT ![p].pc = "done"]
    /\ UNCHANGED <<zone, hasTermios, now, calls, ret, pc, lines, hist, codec>>

\* a second passes
TickConcurrent ==
    /\ \E s \in ClockStarts : now - s \in 0..(MaxTicks - 1)
    /\ now' = now + 1
    /\ UNCHANGED <<zone, hasTermios, dir, saves, calls, ret, pc, lines, hist, proc, codec>>

NextConcurrent ==
    \/ \E p \in Procs, text \in ProcTexts : Begin(p, text)
    \/ \E p \in Procs : Probe(p)
    \/ \E p \in Procs : Write(p)
    \/ TickConcurrent

SpecConcurrent == InitConcurrent /\ [][NextConcurrent]_vars

BothSaved == \A p \in Procs : proc[p].pc = "done"

\* C9: two saves that have both returned left as many files as they chose
\* names; when they chose the same name, which the unlocked check-then-write
\* allows, one file is left for two successful saves and it holds the text of
\* the save that wrote last.
C9_CollisionLosesNote ==
    BothSaved =>
        /\ Len(saves) = 2
        /\ Cardinality(DOMAIN dir) = Cardinality({proc[p].path : p \in Procs})
        /\ proc[1].path = proc[2].path =>
             /\ Cardinality(DOMAIN dir) < Len(saves)
             /\ dir[proc[1].path[1]].content = Strip(saves[2].text) \o <<"\n">>

\* C9's case: two saves of different texts in one second chose the same name,
\* and the first one's note is gone
C9_Witness ==
    /\ BothSaved
    /\ saves[1].at = saves[2].at
    /\ proc[1].path = proc[2].path
    /\ saves[1].text # saves[2].text
    /\ Cardinality(DOMAIN dir) = 1
    /\ \A f \in DOMAIN dir : dir[f].content # Strip(saves[1].text) \o <<"\n">>

====
